---- MODULE Spec2Model ----
(***************************************************************************)
(* Model of the TCP test server (src/index.js): the directive grammar      *)
(* (parseRequest), the sequential action executor (execActions and the     *)
(* act_* handlers) and the connection handler of the listener.             *)
(*                                                                         *)
(* Strings are sequences of one-character strings; indices of the string   *)
(* helpers are 0-based like the JavaScript methods they model.             *)
(***************************************************************************)
EXTENDS Integers, Sequences, FiniteSets, TLC

\* ------------------------------------------------------------------------
\* Bounds of the model
\* ------------------------------------------------------------------------
NumSessions == 2
\* pieces of a string handed to parseRequest
MaxPieces == 7

Sessions == 1..NumSessions

\* ------------------------------------------------------------------------
\* JavaScript values
\* ------------------------------------------------------------------------
\* the value undefined where a string is expected (no string has a
\* multi-character element)
undefined == <<"undefined">>
\* Number(x) when x is not numeric
NaN == -1

Min(a, b) == IF a < b THEN a ELSE b

\* printable ASCII, code 32 .. 126 (the quote, the backslash and the backtick are
\* named, no payload of the model contains them)
Ascii ==
  << " ", "!", "QUOTE", "#", "$", "%", "&", "'", "(", ")", "*", "+", ",", "-", ".", "/",
     "0", "1", "2", "3", "4", "5", "6", "7", "8", "9", ":", ";", "<", "=", ">", "?",
     "@", "A", "B", "C", "D", "E", "F", "G", "H", "I", "J", "K", "L", "M", "N", "O",
     "P", "Q", "R", "S", "T", "U", "V", "W", "X", "Y", "Z", "[", "BACKSLASH", "]", "^", "_",
     "BACKTICK", "a", "b", "c", "d", "e", "f", "g", "h", "i", "j", "k", "l", "m", "n", "o",
     "p", "q", "r", "s", "t", "u", "v", "w", "x", "y", "z", "{", "|", "}", "~" >>

\* character code of a printable character
CharCode == [c \in { Ascii[i] : i \in 1..Len(Ascii) } |->
               31 + (CHOOSE i \in 1..Len(Ascii) : Ascii[i] = c)]
Ord(c) == CharCode[c]

Digits == <<"0", "1", "2", "3", "4", "5", "6", "7", "8", "9">>
IsDigit(c) == \E i \in 1..10 : Digits[i] = c
DigitVal(c) == (CHOOSE i \in 1..10 : Digits[i] = c) - 1

HexVal(c) ==
  IF IsDigit(c) THEN DigitVal(c)
  ELSE IF c \in {"A", "a"} THEN 10
  ELSE IF c \in {"B", "b"} THEN 11
  ELSE IF c \in {"C", "c"} THEN 12
  ELSE IF c \in {"D", "d"} THEN 13
  ELSE IF c \in {"E", "e"} THEN 14
  ELSE IF c \in {"F", "f"} THEN 15
  ELSE -1

\* String.prototype.startsWith at position i (0-based)
MatchAt(s, pat, i) ==
  /\ i + Len(pat) <= Len(s)
  /\ \A k \in 1..Len(pat) : s[i + k] = pat[k]

\* String.prototype.indexOf(pat, i): 0-based index of the first occurrence at
\* or after i, or -1
RECURSIVE IndexFrom(_, _, _)
IndexFrom(s, pat, i) ==
  IF i + Len(pat) > Len(s) THEN -1
  ELSE IF MatchAt(s, pat, i) THEN i
  ELSE IndexFrom(s, pat, i + 1)

IndexOf(s, pat) == IndexFrom(s, pat, 0)

\* String.prototype.includes
Includes(s, pat) == IndexOf(s, pat) # -1

\* String.prototype.slice(from, to) for from >= 0; a negative to counts from
\* the end of the string
Slice(s, from, to) ==
  LET end == IF to < 0 THEN (IF Len(s) + to < 0 THEN 0 ELSE Len(s) + to)
             ELSE Min(to, Len(s))
  IN IF end <= from THEN <<>> ELSE SubSeq(s, from + 1, end)

\* String.prototype.split(sep) for a one-character separator: every piece,
\* empty ones included
RECURSIVE Split(_, _)
Split(s, sep) ==
  LET i == IndexOf(s, sep)
  IN IF i = -1 THEN <<s>>
     ELSE <<Slice(s, 0, i)>> \o Split(Slice(s, i + Len(sep), Len(s)), sep)

\* arr[i] of a JavaScript array (0-based); undefined past the end
At(arr, i) == IF i < Len(arr) THEN arr[i + 1] ELSE undefined

\* Number(x) for the strings of the model: a string of decimal digits is its
\* value, the empty string is 0, undefined and everything else is NaN
RECURSIVE DecVal(_)
DecVal(s) ==
  IF s = <<>> THEN 0
  ELSE 10 * DecVal(SubSeq(s, 1, Len(s) - 1)) + DigitVal(s[Len(s)])

Number(x) ==
  IF x = undefined THEN NaN
  ELSE IF \A i \in 1..Len(x) : IsDigit(x[i]) THEN DecVal(x)
  ELSE NaN

\* unescape(s): %XX with two hex digits becomes the character of that code,
\* every other character stands for itself; the result is the byte codes
RECURSIVE unescape(_)
unescape(s) ==
  IF s = <<>> THEN <<>>
  ELSE IF /\ s[1] = "%"
          /\ Len(s) >= 3
          /\ HexVal(s[2]) # -1
          /\ HexVal(s[3]) # -1
       THEN <<16 * HexVal(s[2]) + HexVal(s[3])>> \o unescape(SubSeq(s, 4, Len(s)))
       ELSE <<Ord(s[1])>> \o unescape(Tail(s))

\* ------------------------------------------------------------------------
\* Constants of src/index.js
\* ------------------------------------------------------------------------
ACT_SIGN_OPEN == <<"A", "C", "T", "[">>
ACT_SIGN_CLOSE == <<"]">>
ACT_SEP == <<",">>
ACT_CLOSE == <<"C", "L", "O", "S", "E">>
ACT_SEND == <<"S", "E", "N", "D">>
ACT_DATA == <<"D", "A", "T", "A">>
ACT_WAIT == <<"W", "A", "I", "T">>
ACT_SHUT == <<"S", "H", "U", "T">>

\* the value undefined where an action list is expected
undefinedActions == <<[cmd |-> undefined, param |-> undefined]>>

\* the test that sends parseRequest away with undefined
NotDirective_noCloseTest(request) ==
  \/ request = <<>>
  \/ ~Includes(request, ACT_SIGN_OPEN)

NotDirective(request) ==
  \/ request = <<>>
  \/ ~Includes(request, ACT_SIGN_OPEN)
  \/ ~Includes(request, ACT_SIGN_CLOSE)

\* const actStr = request.slice(...)
actStr(request) ==
  Slice(request,
        IndexOf(request, ACT_SIGN_OPEN) + Len(ACT_SIGN_OPEN),
        IndexOf(request, ACT_SIGN_CLOSE))

\* the loop over actStr.split(ACT_SEP)
parseItems(str) ==
  LET items == Split(str, ACT_SEP)
  IN [i \in 1..Len(items) |->
        [cmd |-> At(Split(items[i], <<"=">>), 0),
         param |-> At(Split(items[i], <<"=">>), 1)]]

\* parseRequest without the test for an empty action string
parseRequest_noEmptyTest(request) ==
  IF NotDirective(request) THEN undefinedActions
  ELSE parseItems(actStr(request))

\* parseRequest(request)
parseRequest(request) ==
  IF NotDirective(request) THEN undefinedActions
  ELSE IF actStr(request) = <<>> THEN <<>>
  ELSE parseItems(actStr(request))

\* METHOD_MAP[cmd]: a property read on a plain object literal, so a name that
\* is not an own key is looked up on Object.prototype
ObjectPrototypeFunctions == { <<"t", "o", "S", "t", "r", "i", "n", "g">>,
                              <<"v", "a", "l", "u", "e", "O", "f">> }

METHOD_MAP(cmd) ==
  IF cmd = ACT_CLOSE THEN "act_close"
  ELSE IF cmd = ACT_DATA THEN "act_data"
  ELSE IF cmd = ACT_SEND THEN "act_send"
  ELSE IF cmd = ACT_WAIT THEN "act_wait"
  ELSE IF cmd = ACT_SHUT THEN "act_shut"
  ELSE IF cmd \in ObjectPrototypeFunctions THEN "inherited"
  ELSE "undefined"

\* ------------------------------------------------------------------------
\* The runtime
\* ------------------------------------------------------------------------
\* Major versions of the Node.js runtime the script runs on
NodeVersions == {12, 16}

\* stream.write(undefined, cb): the runtime throws ERR_INVALID_ARG_TYPE from
\* write itself (14 and later) or emits 'error' and still calls cb (before)
WriteUndefinedThrows(rt) == rt >= 14

\* a rejected promise nobody handles ends the process (15 and later) or is
\* only warned about (before)
UnhandledRejectionKills(rt) == rt >= 15

\* crypto.randomBytes(n) throws unless n is a number in 0 .. 2^31 - 1
MAX_RANDOM == 2147483647
RandomBytesThrows(n) == n = NaN \/ n > MAX_RANDOM

\* ------------------------------------------------------------------------
\* State
\* ------------------------------------------------------------------------
VARIABLES
  nodeMajor,   \* the runtime's major version
  proc,        \* "start", "running", "exited" (startup refused), "crashed"
  args,        \* process.argv.slice(2)
  portNum,
  globActions, \* the global action list, undefinedActions when there is none
  listening,   \* the server has a listening handle
  sock,        \* per session: "none", "open", "ended" (end() called), "closed"
  dataGot,     \* per session: socket.dataGot
  ignored,     \* the session on which a payload that holds an action set
               \* last arrived without being looked at, 0 before there is one
  actions,     \* per session: the action list given to execActions
  pc,          \* per session: "IDLE", "RUNNING", "DONE", "ABORTED", "REJECTED"
  started,     \* per session: indices of the actions begun, in order
  inflight,    \* per session: indices of actions whose completion is pending
  trace,       \* per session: what happened on the stream, in order
  failed,      \* per session: indices of the actions whose operation failed
  starts,      \* per session: number of calls of execActions
  firstData,   \* per session: which of Payloads the handler of 'data' got
               \* first, 0 before
  reqStr,      \* the string handed to parseRequest when it is exercised alone
  parseOut     \* what parseRequest returned for reqStr, notParsed before

vars == << nodeMajor, proc, args, portNum, globActions, listening, sock, dataGot,
           ignored, actions, pc, started, inflight, trace, failed, starts,
           firstData, reqStr, parseOut >>

\* no call of parseRequest has returned yet
notParsed == <<[cmd |-> <<"none">>, param |-> <<"none">>]>>

DEF_PORT == 11111

\* entries of trace
Ev(op, bytes, n) == [op |-> op, bytes |-> bytes, n |-> n]

\* ------------------------------------------------------------------------
\* The action handlers.  Each takes the context c of one session
\* ([sock, trace, inflight, failed, listening]) and gives [c, out] where out says how
\* the call ended: "pending" (a promise waiting for its completion signal),
\* "returned" (a value that is no promise) or "threw".
\* ------------------------------------------------------------------------
\* socket.end(): the writable side is finished
socketEnd(c) ==
  [c EXCEPT !.sock = IF c.sock = "open" THEN "ended" ELSE c.sock,
            !.trace = Append(c.trace, Ev("end", <<>>, 0))]

\* socket.write(bytes): bytes reach the stream only while it is writable
socketWrite(c, op, bytes, n) ==
  IF c.sock = "open" THEN [c EXCEPT !.trace = Append(c.trace, Ev(op, bytes, n))]
  ELSE c

\* act_close that only waits, without socket.end
act_close_noEnd(c, i) ==
  [c |-> [c EXCEPT !.inflight = @ \cup {i}], out |-> "pending"]

act_close(c, i) ==
  [c |-> [socketEnd(c) EXCEPT !.inflight = @ \cup {i}], out |-> "pending"]

act_send(c, i, data, rt) ==
  IF data = undefined
  THEN IF WriteUndefinedThrows(rt)
       THEN [c |-> [c EXCEPT !.failed = @ \cup {i}], out |-> "threw"]
       ELSE [c |-> [c EXCEPT !.failed = @ \cup {i}, !.inflight = @ \cup {i}],
             out |-> "pending"]
  ELSE LET bytes == unescape(data)
       IN [c |-> [socketWrite(c, "write", bytes, Len(bytes))
                    EXCEPT !.inflight = @ \cup {i}],
           out |-> "pending"]

act_data(c, i, length) ==
  IF RandomBytesThrows(Number(length))
  THEN [c |-> c, out |-> "threw"]
  ELSE [c |-> [socketWrite(c, "random", <<>>, Number(length))
                 EXCEPT !.inflight = @ \cup {i}],
        out |-> "pending"]

act_wait(c, i) ==
  [c |-> [c EXCEPT !.inflight = @ \cup {i}], out |-> "pending"]

\* server.close(cb) on a server that is not listening hands
\* ERR_SERVER_NOT_RUNNING to cb
act_shut(c, i) ==
  [c |-> [c EXCEPT !.listening = FALSE,
                   !.failed = IF c.listening THEN @ ELSE @ \cup {i},
                   !.inflight = @ \cup {i}],
   out |-> "pending"]

\* METHOD_MAP[item.cmd](socket, item.param)
CallHandler(c, i, item, rt) ==
  LET h == METHOD_MAP(item.cmd)
  IN IF h = "act_close" THEN act_close(c, i)
     ELSE IF h = "act_send" THEN act_send(c, i, item.param, rt)
     ELSE IF h = "act_data" THEN act_data(c, i, item.param)
     ELSE IF h = "act_wait" THEN act_wait(c, i)
     ELSE IF h = "act_shut" THEN act_shut(c, i)
     ELSE [c |-> c, out |-> "returned"]

\* the call of the handler without await: the loop never waits
Awaits_dropped(out) == FALSE

\* await: the loop is suspended on a pending promise
Awaits(out) == out = "pending"

\* the test of the loop for an unknown action
IsUnknown(cmd) == METHOD_MAP(cmd) = "undefined"

\* the loop followed by socket.end()
Finish_ending(e) == [e EXCEPT !.c = socketEnd(e.c), !.pc = "DONE"]

\* the end of the loop: execActions returns
Finish(e) == [e EXCEPT !.pc = "DONE"]

\* The loop of execActions from item i on, up to the point where it is
\* suspended or returns.  e is [c, pc, started].
RECURSIVE RunFrom(_, _, _, _)
RunFrom(e, acts, i, rt) ==
  IF i > Len(acts) THEN Finish(e)
  ELSE IF IsUnknown(acts[i].cmd)
  THEN [e EXCEPT !.c = socketEnd(e.c), !.pc = "ABORTED"]
  ELSE
    LET r == CallHandler(e.c, i, acts[i], rt)
        e1 == [e EXCEPT !.c = r.c, !.started = Append(e.started, i)]
    IN IF r.out = "threw" THEN [e1 EXCEPT !.pc = "REJECTED"]
       ELSE IF Awaits(r.out) THEN [e1 EXCEPT !.pc = "RUNNING"]
       ELSE RunFrom(e1, acts, i + 1, rt)

\* execActions(socket, acts), up to its first suspension
execActions(e, acts, rt) ==
  IF Len(acts) = 0 THEN [e EXCEPT !.pc = "DONE"]
  ELSE RunFrom(e, acts, 1, rt)

\* ------------------------------------------------------------------------
\* Inputs: the payloads a client sends and the command lines
\* ------------------------------------------------------------------------
\* ACT[]
P_EMPTY ==
  <<"A", "C", "T", "[", "]">>
\* ACT[SEND=Hello!%0D%0A,DATA=1000,WAIT=1000,CLOSE]
P_EXAMPLE ==
  <<"A", "C", "T", "[", "S", "E", "N", "D", "=", "H", "e", "l", "l", "o",
    "!", "%", "0", "D", "%", "0", "A", ",", "D", "A", "T", "A", "=", "1",
    "0", "0", "0", ",", "W", "A", "I", "T", "=", "1", "0", "0", "0", ",",
    "C", "L", "O", "S", "E", "]">>
\* ACT[SEND=a,FOO,CLOSE]
P_UNKNOWN ==
  <<"A", "C", "T", "[", "S", "E", "N", "D", "=", "a", ",", "F", "O", "O",
    ",", "C", "L", "O", "S", "E", "]">>
\* ACT[toString,SEND=a]
P_INHERITED ==
  <<"A", "C", "T", "[", "t", "o", "S", "t", "r", "i", "n", "g", ",", "S",
    "E", "N", "D", "=", "a", "]">>
\* ACT[SHUT,SEND=a]
P_SHUT ==
  <<"A", "C", "T", "[", "S", "H", "U", "T", ",", "S", "E", "N", "D", "=",
    "a", "]">>
\* ACT[SEND,CLOSE]
P_NOPARAM ==
  <<"A", "C", "T", "[", "S", "E", "N", "D", ",", "C", "L", "O", "S", "E",
    "]">>
\* GET /ACT[CLOSE,SEND=a] HTTP/1.1
P_EMBEDDED ==
  <<"G", "E", "T", " ", "/", "A", "C", "T", "[", "C", "L", "O", "S", "E", ",",
    "S", "E", "N", "D", "=", "a", "]", " ", "H", "T", "T", "P", "/", "1", ".",
    "1">>
\* hello
P_NODIR ==
  <<"h", "e", "l", "l", "o">>

Payloads == << P_EMPTY, P_EXAMPLE, P_UNKNOWN, P_INHERITED, P_SHUT, P_NOPARAM,
              P_EMBEDDED, P_NODIR >>

\* ACT[SEND=a]
A_GLOBAL == <<"A", "C", "T", "[", "S", "E", "N", "D", "=", "a", "]">>

\* node index.js, node index.js ACT[], node index.js 80 ACT[SEND=a],
\* node index.js hello, node index.js ?, node index.js ACT[SEND=a] hello
ArgChoices == { <<>>, <<P_EMPTY>>, << <<"8", "0">>, A_GLOBAL >>, <<P_NODIR>>, << <<"?">> >>,
                << A_GLOBAL, P_NODIR >> }

\* ------------------------------------------------------------------------
\* Initial state: the process has been launched, nothing has run yet
\* ------------------------------------------------------------------------
InitProgram ==
  /\ nodeMajor \in NodeVersions
  /\ proc = "start"
  /\ args \in ArgChoices
  /\ portNum = DEF_PORT
  /\ globActions = undefinedActions
  /\ listening = FALSE
  /\ sock = [s \in Sessions |-> "none"]
  /\ dataGot = [s \in Sessions |-> FALSE]
  /\ ignored = 0
  /\ actions = [s \in Sessions |-> <<>>]
  /\ pc = [s \in Sessions |-> "IDLE"]
  /\ started = [s \in Sessions |-> <<>>]
  /\ inflight = [s \in Sessions |-> {}]
  /\ trace = [s \in Sessions |-> <<>>]
  /\ failed = [s \in Sessions |-> {}]
  /\ starts = [s \in Sessions |-> 0]
  /\ firstData = [s \in Sessions |-> 0]

Init ==
  /\ InitProgram
  /\ reqStr = <<>>
  /\ parseOut = notParsed

\* ------------------------------------------------------------------------
\* Main: the argument loop, createServer and listen
\* ------------------------------------------------------------------------
IsUsage(as) == Len(as) = 1 /\ as[1] \in { <<"/", "?">>, <<"-", "?">>, <<"?">> }

\* the while loop without the return after a failed parse
RECURSIVE ArgLoop_noReturn(_)
ArgLoop_noReturn(a) ==
  IF Len(a.args) = 0 THEN a
  ELSE IF Number(a.args[1]) # NaN
  THEN ArgLoop_noReturn([a EXCEPT !.port = Number(a.args[1]), !.args = Tail(a.args)])
  ELSE ArgLoop_noReturn([a EXCEPT !.glob = parseRequest(a.args[1]),
                                  !.args = Tail(a.args)])

\* the while loop over args; a is [args, port, glob, ok]
RECURSIVE ArgLoop(_)
ArgLoop(a) ==
  IF Len(a.args) = 0 THEN a
  ELSE IF Number(a.args[1]) # NaN
  THEN ArgLoop([a EXCEPT !.port = Number(a.args[1]), !.args = Tail(a.args)])
  ELSE LET g == parseRequest(a.args[1])
       IN IF g = undefinedActions
          THEN [a EXCEPT !.glob = g, !.ok = FALSE]
          ELSE ArgLoop([a EXCEPT !.glob = g, !.args = Tail(a.args)])

Main ==
  /\ proc = "start"
  /\ LET a == ArgLoop([args |-> args, port |-> portNum, glob |-> globActions,
                       ok |-> TRUE])
     IN IF IsUsage(args)
        THEN /\ proc' = "exited"
             /\ UNCHANGED << args, portNum, globActions, listening >>
        ELSE /\ args' = a.args
             /\ portNum' = a.port
             /\ globActions' = a.glob
             /\ proc' = IF a.ok THEN "running" ELSE "exited"
             /\ listening' = a.ok
  /\ UNCHANGED << nodeMajor, sock, dataGot, ignored, actions, pc, started,
                  inflight, trace, failed, starts, reqStr, parseOut,
                  firstData >>

\* ------------------------------------------------------------------------
\* The connection handler and what follows on a session
\* ------------------------------------------------------------------------
\* the state of session s as the executor sees it
Ctx(s) ==
  [c |-> [sock |-> sock[s], trace |-> trace[s], inflight |-> inflight[s],
          failed |-> failed[s], listening |-> listening],
   pc |-> pc[s], started |-> started[s]]

\* execActions(...) is called without a handler for its promise
Unhandled(e) == e.pc = "REJECTED" /\ UnhandledRejectionKills(nodeMajor)

\* the state after the executor ran on session s and left e
Commit(s, e) ==
  /\ proc' = IF Unhandled(e) THEN "crashed" ELSE proc
  /\ listening' = IF Unhandled(e) THEN FALSE ELSE e.c.listening
  /\ sock' = IF Unhandled(e)
             THEN [t \in Sessions |->
                     IF t # s /\ sock[t] = "none" THEN "none" ELSE "closed"]
             ELSE [sock EXCEPT ![s] = e.c.sock]
  /\ trace' = [trace EXCEPT ![s] = e.c.trace]
  /\ inflight' = [inflight EXCEPT ![s] = e.c.inflight]
  /\ failed' = [failed EXCEPT ![s] = e.c.failed]
  /\ pc' = [pc EXCEPT ![s] = e.pc]
  /\ started' = [started EXCEPT ![s] = e.started]

\* if (globActions): an array, even an empty one, is truthy
GlobalConfigured == globActions # undefinedActions

\* socket.on('data', ...) without the else
DataHandlerInstalled_always == TRUE

\* else socket.on('data', ...)
DataHandlerInstalled == ~GlobalConfigured

\* the handler without the test of socket.dataGot
AlreadyGot_ignored(s) == FALSE

\* if (socket.dataGot) return
AlreadyGot(s) == dataGot[s]

\* srv.on('connection'): a client connects (sessions are numbered in the
\* order in which they are accepted)
Connection(s) ==
  /\ proc = "running"
  /\ listening
  /\ sock[s] = "none"
  /\ \A t \in Sessions : t < s => sock[t] # "none"
  /\ IF GlobalConfigured
     THEN /\ Commit(s, execActions([Ctx(s) EXCEPT !.c.sock = "open"], globActions,
                                   nodeMajor))
          /\ actions' = [actions EXCEPT ![s] = globActions]
          /\ starts' = [starts EXCEPT ![s] = @ + 1]
     ELSE /\ sock' = [sock EXCEPT ![s] = "open"]
          /\ UNCHANGED << proc, listening, trace, inflight, failed, pc, started,
                          actions, starts >>
  /\ UNCHANGED << nodeMajor, args, portNum, globActions, dataGot, ignored,
                  reqStr, parseOut,
                  firstData >>

\* parseRequest(reqStr) for the payloads, in the order of Payloads
Parsed ==
  << parseRequest(P_EMPTY), parseRequest(P_EXAMPLE), parseRequest(P_UNKNOWN),
     parseRequest(P_INHERITED), parseRequest(P_SHUT), parseRequest(P_NOPARAM),
     parseRequest(P_EMBEDDED), parseRequest(P_NODIR) >>

\* the handler without the test of the parse result
IsIncorrect_never(acts) == FALSE

\* if (!actions): parseRequest found no directive
IsIncorrect(acts) == acts = undefinedActions

\* the flag set only once a directive has been found
MarkGot_afterParse(s, acts) == [dataGot EXCEPT ![s] = ~IsIncorrect(acts)]

\* socket.dataGot = true, before parseRequest is called
MarkGot(s, acts) == [dataGot EXCEPT ![s] = TRUE]

\* socket.on('data'): the payload Payloads[k] arrives on session s.  A payload
\* that is not looked at changes nothing of the program; its session is
\* recorded in ignored when it holds an action set (the example stands for
\* every such payload: the step is the same for all of them).
Data(s, k) ==
  /\ proc = "running"
  /\ sock[s] \in {"open", "ended"}
  /\ IF ~DataHandlerInstalled \/ AlreadyGot(s)
     THEN /\ ignored # s
          /\ Payloads[k] = P_EXAMPLE
          /\ Parsed[k] # undefinedActions
          /\ ignored' = s
          /\ UNCHANGED << proc, listening, sock, trace, inflight, failed, pc,
                          started, actions, starts, dataGot, firstData >>
     ELSE /\ dataGot' = MarkGot(s, Parsed[k])
          /\ firstData' = [firstData EXCEPT ![s] = k]
          /\ IF IsIncorrect(Parsed[k])
             THEN /\ sock' = [sock EXCEPT ![s] = socketEnd(Ctx(s).c).sock]
                  /\ trace' = [trace EXCEPT ![s] = socketEnd(Ctx(s).c).trace]
                  /\ UNCHANGED << proc, listening, inflight, failed, pc, started,
                                  actions, starts >>
             ELSE /\ Commit(s, execActions(Ctx(s), Parsed[k], nodeMajor))
                  /\ actions' = [actions EXCEPT ![s] = Parsed[k]]
                  /\ starts' = [starts EXCEPT ![s] = @ + 1]
          /\ UNCHANGED ignored
  /\ UNCHANGED << nodeMajor, args, portNum, globActions, reqStr, parseOut >>

\* setTimeout(cb, n): a delay that is no number in 1 .. 2^31 - 1 becomes 1
TIMEOUT_MAX == 2147483647
TimerDelay(n) == IF n = NaN \/ n < 1 \/ n > TIMEOUT_MAX THEN 1 ELSE n

Handler(s, i) == METHOD_MAP(actions[s][i].cmd)

\* server.close(cb): cb runs on the server's 'close' event, which needs the
\* listening handle gone and every connection closed
ServerCloseEmitted == ~listening /\ \A t \in Sessions : sock[t] \in {"none", "closed"}

\* the completion signal of a pending action may fire
CanComplete(s, i) == Handler(s, i) = "act_shut" => ServerCloseEmitted

\* promisifyCbAndError rejects on 'error': the handlers that go through it
\* (write(undefined) on a runtime that does not throw has emitted its error
\* before the listener was added)
CanFail(s, i) ==
  /\ Handler(s, i) \in {"act_close", "act_send", "act_data"}
  /\ ~(Handler(s, i) = "act_send" /\ actions[s][i].param = undefined)

\* the loop of session s is suspended on action i
Awaited(s, i) ==
  /\ pc[s] = "RUNNING"
  /\ Len(started[s]) > 0
  /\ started[s][Len(started[s])] = i

\* The completion signal of action i of session s fires (write flushed, end
\* finished, timer expired, server closed) and the loop goes on
Complete(s, i) ==
  /\ proc = "running"
  /\ i \in inflight[s]
  /\ CanComplete(s, i)
  /\ LET e0 == [Ctx(s) EXCEPT
                  !.c.inflight = @ \ {i},
                  !.c.trace = IF Handler(s, i) = "act_wait"
                              THEN Append(@, Ev("timer", <<>>,
                                     TimerDelay(Number(actions[s][i].param))))
                              ELSE @]
     IN IF Awaited(s, i)
        THEN Commit(s, RunFrom(e0, actions[s], i + 1, nodeMajor))
        ELSE Commit(s, e0)
  /\ UNCHANGED << nodeMajor, args, portNum, globActions, dataGot, ignored,
                  actions, starts, reqStr, parseOut,
                  firstData >>

\* The socket emits 'error' while the write or end of action i is pending:
\* the socket is destroyed and the promise of the action is rejected
Fail(s, i) ==
  /\ proc = "running"
  /\ i \in inflight[s]
  /\ CanFail(s, i)
  /\ LET e0 == [Ctx(s) EXCEPT !.c.inflight = @ \ {i}, !.c.sock = "closed",
                               !.c.failed = @ \cup {i}]
     IN IF Awaited(s, i)
        THEN Commit(s, [e0 EXCEPT !.pc = "REJECTED"])
        ELSE Commit(s, e0)
  /\ UNCHANGED << nodeMajor, args, portNum, globActions, dataGot, ignored,
                  actions, starts, reqStr, parseOut,
                  firstData >>

\* The peer closes the connection (or it breaks while nothing is pending)
PeerClose(s) ==
  /\ proc = "running"
  /\ sock[s] \in {"open", "ended"}
  /\ sock' = [sock EXCEPT ![s] = "closed"]
  /\ UNCHANGED << nodeMajor, proc, args, portNum, globActions, listening, dataGot,
                  ignored, actions, pc, started, inflight, trace, failed, starts,
                  reqStr, parseOut,
                  firstData >>

Next ==
  \/ Main
  \/ \E s \in Sessions : Connection(s)
  \/ \E s \in Sessions, k \in DOMAIN Payloads : Data(s, k)
  \/ \E s \in Sessions : \E i \in DOMAIN actions[s] : Complete(s, i)
  \/ \E s \in Sessions : \E i \in DOMAIN actions[s] : Fail(s, i)
  \/ \E s \in Sessions : PeerClose(s)

Spec == Init /\ [][Next]_vars

\* The event loop delivers every completion signal that is due
FairSpec == Spec /\ \A s \in Sessions : WF_vars(\E i \in DOMAIN actions[s] : Complete(s, i))

\* Every completion signal eventually fires: the event loop delivers what is
\* due, and every connection is closed by its peer in the end, which is what
\* the 'close' event of the server waits for
LiveSpec ==
  /\ Spec
  /\ \A s \in Sessions : WF_vars(\E i \in DOMAIN actions[s] : Complete(s, i))
  /\ \A s \in Sessions : WF_vars(PeerClose(s))

\* ------------------------------------------------------------------------
\* parseRequest exercised alone: one call on a string put together from the
\* pieces of the grammar
\* ------------------------------------------------------------------------
\* the markers, the separators and a letter
Pieces == << ACT_SIGN_OPEN, ACT_SIGN_CLOSE, ACT_SEP, <<"=">>, <<"a">> >>

RECURSIVE Concat(_)
Concat(ps) == IF ps = <<>> THEN <<>> ELSE Pieces[Head(ps)] \o Concat(Tail(ps))

\* every string of at most n pieces, the empty string included
Requests(n) ==
  { Concat(ps) : ps \in UNION { [1..k -> DOMAIN Pieces] : k \in 0..n } }

ParseInit ==
  /\ InitProgram
  /\ nodeMajor = 16
  /\ args = <<>>
  /\ reqStr \in Requests(MaxPieces)
  /\ parseOut = notParsed

\* parseRequest(reqStr) is called and returns
Parse ==
  /\ parseOut = notParsed
  /\ parseOut' = parseRequest(reqStr)
  /\ UNCHANGED << nodeMajor, proc, args, portNum, globActions, listening, sock,
                  dataGot, ignored, actions, pc, started, inflight, trace, failed,
                  starts, firstData, reqStr >>

ParseNext == Parse

ParseSpec == ParseInit /\ [][ParseNext]_vars

\* ------------------------------------------------------------------------
\* Properties
\* ------------------------------------------------------------------------
Last(q) == q[Len(q)]

KnownKinds == {ACT_CLOSE, ACT_DATA, ACT_SEND, ACT_WAIT, ACT_SHUT}

HasEnd(q) == \E k \in 1..Len(q) : q[k].op = "end"
HasWrite(q) == \E k \in 1..Len(q) : q[k].op \in {"write", "random"}

\* C1: on every session the actions are started in list order, at most one
\* action is in flight, and an action is started only after the completion
\* signal of the one before it has fired.
C1_OneActionAtATime ==
  \A s \in Sessions :
    /\ Cardinality(inflight[s]) <= 1
    /\ \A j \in 1..Len(started[s]) : started[s][j] = j
    /\ \A j \in 1..Len(started[s]) : j < Len(started[s]) => j \notin inflight[s]

\* a session whose third action is in flight after the first two completed
C1_Witness ==
  \E s \in Sessions :
    /\ Len(started[s]) = 3
    /\ inflight[s] = {3}
    /\ Len(trace[s]) = 2

\* C2 (as claimed): when a directive holds an action whose kind is not one of
\* the five known kinds, nothing at or after that action is started, the
\* execution never ends as completed, and when it is aborted the stream has
\* been ended.
C2_UnknownKindStopsDirective ==
  \A s \in Sessions : \A k \in 1..Len(actions[s]) :
    (starts[s] > 0 /\ actions[s][k].cmd \notin KnownKinds) =>
      /\ \A j \in 1..Len(started[s]) : started[s][j] < k
      /\ pc[s] # "DONE"
      /\ pc[s] = "ABORTED" => HasEnd(trace[s])

\* a SHUT of session s is pending and the directive goes on after it
ShutPendingWithNext(s) ==
  \E i \in inflight[s] :
    /\ actions[s][i].cmd = ACT_SHUT
    /\ i < Len(actions[s])

\* C3 (as claimed): while the session that issued SHUT stays open and the
\* process runs, the pending SHUT completes and the next action of the
\* directive begins.
C3_ActionAfterShutBegins ==
  \A s \in Sessions :
    (ShutPendingWithNext(s) /\ sock[s] = "open")
      ~> (~ShutPendingWithNext(s) \/ sock[s] # "open" \/ proc # "running")

\* C4: without a global directive execActions is called at most once for a
\* session, whatever payloads arrive on it.
C4_AtMostOneDirectivePerSession ==
  ~GlobalConfigured =>
    \A s \in Sessions :
      /\ starts[s] <= 1
      /\ starts[s] = 1 => dataGot[s]

\* a later payload holding an action set arrived on a session whose
\* directive is still running after its first action
C4_Witness ==
  /\ ~GlobalConfigured
  /\ \E s \in Sessions :
       /\ ignored = s
       /\ starts[s] = 1
       /\ pc[s] = "RUNNING"
       /\ Len(started[s]) > 1

\* C5: with a global directive every accepted session runs exactly that
\* directive, started once when it connects, and no payload is ever looked at.
C5_GlobalDirectiveOnly ==
  GlobalConfigured =>
    \A s \in Sessions :
      /\ starts[s] = (IF sock[s] = "none" THEN 0 ELSE 1)
      /\ starts[s] = 1 => actions[s] = globActions
      /\ ~dataGot[s]

\* a payload holding an action set arrived on a session of a server with a
\* global directive
C5_Witness ==
  /\ GlobalConfigured
  /\ \E s \in Sessions : ignored = s /\ starts[s] = 1

\* C6 (as claimed): after the operation of an action has failed, no later
\* action of the directive is started.
C6_FailureStopsDirective ==
  \A s \in Sessions : \A i \in failed[s] :
    \A j \in 1..Len(started[s]) : started[s][j] <= i

\* the execution of session s fails in this step
FailureStep(s) ==
  /\ pc[s] \notin {"ABORTED", "REJECTED"}
  /\ pc'[s] \in {"ABORTED", "REJECTED"}

\* C7 (as claimed): the step in which one session's execution fails changes
\* nothing of any other session and leaves the listener and the process as
\* they were.
C7_FailureStaysInSession ==
  [][\A s \in Sessions :
       FailureStep(s) =>
         /\ proc' = proc
         /\ listening' = listening
         /\ \A t \in Sessions \ {s} :
              /\ sock'[t] = sock[t]
              /\ pc'[t] = pc[t]
              /\ inflight'[t] = inflight[t]
              /\ trace'[t] = trace[t]]_vars

\* C8 (as claimed): a SEND without parameter writes nothing and does not end
\* the execution: it is never the action on which the directive is rejected.
C8_SendWithoutParameterCompletes ==
  \A s \in Sessions :
    (pc[s] = "REJECTED" /\ Len(started[s]) > 0) =>
      ~(/\ actions[s][Last(started[s])].cmd = ACT_SEND
        /\ actions[s][Last(started[s])].param = undefined)

\* the directive has only known kinds and no CLOSE
NoCloseOnlyKnown(acts) ==
  \A k \in 1..Len(acts) : acts[k].cmd \in KnownKinds \ {ACT_CLOSE}

\* C9: when every action of a directive without CLOSE (and with known kinds
\* only) has completed, the server has not ended the stream.
C9_NoImplicitEnd ==
  \A s \in Sessions :
    (pc[s] = "DONE" /\ NoCloseOnlyKnown(actions[s])) =>
      /\ sock[s] # "ended"
      /\ ~HasEnd(trace[s])

\* a directive of one action without CLOSE has completed, something was
\* written and the stream is open
C9_Witness ==
  \E s \in Sessions :
    /\ pc[s] = "DONE"
    /\ Len(actions[s]) > 0
    /\ NoCloseOnlyKnown(actions[s])
    /\ HasWrite(trace[s])
    /\ sock[s] = "open"

\* C10: the payload ACT[] (the first of Payloads) parses to the empty
\* directive, not to undefined,
\* and the execution of the empty directive is complete at once with nothing
\* written, nothing ended and nothing started.
C10_EmptyDirectiveDoesNothing ==
  /\ Parsed[1] = <<>>
  /\ Parsed[1] # undefinedActions
  /\ \A s \in Sessions :
       (starts[s] > 0 /\ actions[s] = <<>>) =>
         /\ pc[s] = "DONE"
         /\ trace[s] = <<>>
         /\ started[s] = <<>>
         /\ inflight[s] = {}
         /\ sock[s] # "ended"

\* the empty directive of a payload has been executed on an open session
C10_Witness ==
  \E s \in Sessions :
    /\ ~GlobalConfigured
    /\ starts[s] = 1
    /\ actions[s] = <<>>
    /\ dataGot[s]
    /\ sock[s] = "open"

\* the string holds the opening marker ACT[ / the closing marker ]
HasOpen(str) ==
  \E i \in 1..(Len(str) - 3) : SubSeq(str, i, i + 3) = <<"A", "C", "T", "[">>
HasClose(str) == \E i \in 1..Len(str) : str[i] = "]"

\* C11: for every string (the empty one included) that lacks the opening
\* marker or lacks the closing marker, parseRequest returns undefined, never
\* the empty directive nor any other list.
C11_NoMarkersGivesUndefined ==
  (parseOut # notParsed /\ (~HasOpen(reqStr) \/ ~HasClose(reqStr))) =>
    /\ parseOut = undefinedActions
    /\ parseOut # <<>>

\* parseRequest has returned for a string that opens a directive with text
\* after the marker and never closes it
C11_Witness ==
  /\ parseOut = undefinedActions
  /\ HasOpen(reqStr)
  /\ ~HasClose(reqStr)
  /\ Len(reqStr) > Len(ACT_SIGN_OPEN)

\* position (1-based) of the first character after the first ACT[
TextStart(str) ==
  4 + CHOOSE i \in 1..(Len(str) - 3) :
        /\ SubSeq(str, i, i + 3) = <<"A", "C", "T", "[">>
        /\ \A j \in 1..(i - 1) : SubSeq(str, j, j + 3) # <<"A", "C", "T", "[">>

\* positions of the closing markers after the first ACT[
ClosesAfterOpen(str) == { j \in TextStart(str)..Len(str) : str[j] = "]" }

\* the text between the first ACT[ and the first ] after it
TextBetweenMarkers(str) ==
  LET close == CHOOSE j \in ClosesAfterOpen(str) :
                 \A k \in ClosesAfterOpen(str) : j <= k
  IN SubSeq(str, TextStart(str), close - 1)

\* C12 (as claimed): for every string that holds ACT[ and a ] after it, the
\* action-list text parseRequest uses is the text between the first ACT[ and
\* the first ] after that ACT[, wherever else a ] stands in the string, and
\* the result is the list of that text.
C12_TextIsUpToFirstCloseAfterOpen ==
  (/\ parseOut # notParsed
   /\ HasOpen(reqStr)
   /\ ClosesAfterOpen(reqStr) # {}) =>
     /\ actStr(reqStr) = TextBetweenMarkers(reqStr)
     /\ parseOut = (IF TextBetweenMarkers(reqStr) = <<>> THEN <<>>
                    ELSE parseItems(TextBetweenMarkers(reqStr)))

\* the text of a token before its first = (the whole token without one)
KindOf(tok) ==
  IF \A j \in 1..Len(tok) : tok[j] # "=" THEN tok
  ELSE SubSeq(tok, 1, (CHOOSE j \in 1..Len(tok) :
                         tok[j] = "=" /\ \A k \in 1..(j - 1) : tok[k] # "=") - 1)

\* all of the text of a token after its first =, undefined without one
ParamOf(tok) ==
  IF \A j \in 1..Len(tok) : tok[j] # "=" THEN undefined
  ELSE SubSeq(tok, (CHOOSE j \in 1..Len(tok) :
                      tok[j] = "=" /\ \A k \in 1..(j - 1) : tok[k] # "=") + 1,
              Len(tok))

\* C13 (as claimed): parseRequest gives one action per token of the
\* action-list text, its kind the text before the first = of the token, as
\* written, and its parameter all of the text after the first =, further =
\* included: undefined for a token without =, the empty string for a token
\* that ends in its only =.
C13_ParameterIsAllAfterFirstEquals ==
  (parseOut \notin {notParsed, undefinedActions, <<>>}) =>
    LET toks == Split(actStr(reqStr), ACT_SEP)
    IN /\ Len(parseOut) = Len(toks)
       /\ \A i \in 1..Len(toks) :
            /\ parseOut[i].cmd = KindOf(toks[i])
            /\ parseOut[i].param = ParamOf(toks[i])

\* the bytes of Hello!\r\n
HelloBytes == <<72, 101, 108, 108, 111, 33, 13, 10>>

\* what the README's example does on the stream
ExampleEvents ==
  << Ev("write", HelloBytes, Len(HelloBytes)), Ev("random", <<>>, 1000),
     Ev("timer", <<>>, 1000), Ev("end", <<>>, 0) >>

IsPrefix(a, b) == Len(a) <= Len(b) /\ a = SubSeq(b, 1, Len(a))

\* a holds events of b, in the order of b
RECURSIVE InOrderOf(_, _)
InOrderOf(a, b) ==
  IF a = <<>> THEN TRUE
  ELSE IF b = <<>> THEN FALSE
  ELSE IF Head(a) = Head(b) THEN InOrderOf(Tail(a), Tail(b))
  ELSE InOrderOf(a, Tail(b))

\* C14: on every session nothing is written to the stream after an end of the
\* stream; for the example ACT[SEND=Hello!%0D%0A,DATA=1000,WAIT=1000,CLOSE]
\* (the second of Payloads) the events of the session are, in this order,
\* the write of Hello!\r\n, the write of 1000 random bytes, the expiry of the
\* wait of 1000 and the end of the stream, and nothing else: a prefix of
\* them while the connection lasts, all of them when the directive is done.
C14_NoWriteAfterClose ==
  \A s \in Sessions :
    /\ \A k \in 1..Len(trace[s]) : \A j \in (k + 1)..Len(trace[s]) :
         trace[s][k].op = "end" => trace[s][j].op \notin {"write", "random"}
    /\ (starts[s] > 0 /\ actions[s] = Parsed[2]) =>
         /\ InOrderOf(trace[s], ExampleEvents)
         /\ sock[s] # "closed" => IsPrefix(trace[s], ExampleEvents)
         /\ (pc[s] = "DONE" /\ sock[s] # "closed") => trace[s] = ExampleEvents

\* the example has run to its end on one session, and on another a SEND
\* has begun after the CLOSE before it and wrote nothing
C14_Witness ==
  /\ \E s \in Sessions :
       /\ actions[s] = Parsed[2]
       /\ pc[s] = "DONE"
       /\ trace[s] = ExampleEvents
  /\ \E s \in Sessions :
       /\ Len(actions[s]) = 2
       /\ actions[s][1].cmd = ACT_CLOSE
       /\ actions[s][2].cmd = ACT_SEND
       /\ Len(started[s]) = 2
       /\ HasEnd(trace[s])
       /\ ~HasWrite(trace[s])

\* the first payload the handler of session s got holds no directive
FirstHadNoDirective(s) ==
  /\ firstData[s] # 0
  /\ ~(HasOpen(Payloads[firstData[s]]) /\ HasClose(Payloads[firstData[s]]))

\* C15: without a global directive, when the first payload of a session holds
\* no directive the server executes no action for it (no directive is put in
\* its place) and ends the stream of the session.
C15_NoDirectiveEndsStream ==
  \A s \in Sessions :
    (~GlobalConfigured /\ FirstHadNoDirective(s)) =>
      /\ starts[s] = 0
      /\ started[s] = <<>>
      /\ actions[s] = <<>>
      /\ inflight[s] = {}
      /\ pc[s] = "IDLE"
      /\ trace[s] = << Ev("end", <<>>, 0) >>
      /\ sock[s] \in {"ended", "closed"}

\* a session got a payload without directive first and its stream was ended
C15_Witness ==
  \E s \in Sessions :
    /\ FirstHadNoDirective(s)
    /\ sock[s] = "ended"
    /\ ignored # s

\* a SHUT action of session s begins in this step
ShutBegins(s) ==
  \E j \in (Len(started[s]) + 1)..Len(started'[s]) :
    actions'[s][started'[s][j]].cmd = ACT_SHUT

\* C16 (as claimed): the listener stops listening only in a step in which a
\* SHUT action begins and, once stopped, never listens again; the step in
\* which SHUT begins closes no stream, that of its own session included; and
\* a step in which a stream is closed leaves the listener as it was.
C16_ListenerStopsOnlyByShut ==
  [][/\ (listening /\ ~listening') => \E s \in Sessions : ShutBegins(s)
     /\ (proc = "running" /\ ~listening) => ~listening'
     /\ \A s \in Sessions :
          ShutBegins(s) =>
            \A t \in Sessions : (sock'[t] = "closed") = (sock[t] = "closed")
     /\ \A s \in Sessions :
          (sock[s] # "closed" /\ sock'[s] = "closed") => listening' = listening
    ]_vars

\* the arguments of the command line that are no port number
IsPortArg(str) == \A i \in 1..Len(str) : IsDigit(str[i])
DirectiveArgs(as) == SelectSeq(as, LAMBDA str : ~IsPortArg(str))

\* one of the strings holds no directive
SomeHasNoDirective(strs) ==
  \E i \in 1..Len(strs) : ~(HasOpen(strs[i]) /\ HasClose(strs[i]))

\* C17: when an argument given as global directive holds no directive the
\* process ends without ever listening, and no session is ever accepted;
\* when every such argument parses, the empty directive ACT[] included, the
\* server listens with the directive of the last one as its global directive.
C17_BadGlobalDirectiveRefusesStartup ==
  /\ [](proc = "exited" => (~listening /\ \A s \in Sessions : sock[s] = "none"))
  /\ [][(proc = "start" /\ ~IsUsage(args)) =>
          IF SomeHasNoDirective(DirectiveArgs(args))
          THEN proc' = "exited" /\ ~listening'
          ELSE /\ proc' = "running"
               /\ listening'
               /\ GlobalConfigured' = (DirectiveArgs(args) # <<>>)
               /\ DirectiveArgs(args) # <<>> =>
                    globActions' = parseRequest(Last(DirectiveArgs(args)))
               /\ args = <<P_EMPTY>> => globActions' = <<>>
      ]_vars

\* the process has ended at an argument that holds no directive
C17_Witness ==
  /\ proc = "exited"
  /\ globActions = undefinedActions
  /\ args # <<>>
  /\ SomeHasNoDirective(args)
  /\ ~listening

\* C18 (as claimed): after a SHUT action whose close of the listener reported
\* an error (the listener was not listening any more), no later action of
\* the directive is started.
C18_FailedShutAbortsDirective ==
  \A s \in Sessions : \A i \in failed[s] :
    actions[s][i].cmd = ACT_SHUT =>
      \A j \in 1..Len(started[s]) : started[s][j] <= i

\* the execution of a directive is over: completed, stopped at an unknown
\* action, or ended by the failure of a handler
Final == {"DONE", "ABORTED", "REJECTED"}

\* C19 (as claimed): the execution of a directive never goes back (not from
\* running to idle, not out of a final state), starts no action once it is
\* final and, when every completion signal fires in the end, every execution
\* that is running becomes final.
C19_ExecutionReachesFinalState ==
  /\ [][\A s \in Sessions :
          /\ pc[s] = "RUNNING" => pc'[s] \in {"RUNNING"} \cup Final
          /\ pc[s] \in Final => (pc'[s] = pc[s] /\ started'[s] = started[s])
     ]_vars
  /\ \A s \in Sessions : (pc[s] = "RUNNING") ~> (pc[s] \in Final)

\* C20: the flag socket.dataGot is set by the first payload the handler gets,
\* whether it holds a directive or not, and is never reset; after a first
\* payload without directive nothing is ever executed on the session, also
\* when a later payload holds a directive.
C20_FlagSetBeforeExtraction ==
  /\ [](\A s \in Sessions : firstData[s] # 0 => dataGot[s])
  /\ [][\A s \in Sessions : dataGot[s] => dataGot'[s]]_vars
  /\ [](\A s \in Sessions :
          FirstHadNoDirective(s) => (starts[s] = 0 /\ pc[s] = "IDLE"))

\* after a first payload without directive a payload that holds a directive
\* has arrived on the same session
C20_Witness ==
  \E s \in Sessions :
    /\ FirstHadNoDirective(s)
    /\ ignored = s
    /\ dataGot[s]
    /\ starts[s] = 0

====
